---- MODULE Spec2Model ----
(***************************************************************************)
(* Model of the Flask data service in src/app.py: the insights table, the  *)
(* store connections, and the request handlers GET /api/data,              *)
(* POST /api/insert, GET /api/insights and GET /health.                    *)
(*                                                                         *)
(* Strings are sequences of one-character strings, so that indexing        *)
(* (values[0]), substring tests (key in item) and int() are computed as    *)
(* Python computes them.  A nullable value is None (<<>>) or Some(x)       *)
(* (<<x>>).  A JSON value is a record tagged by its type in field t.       *)
(* The table and every result set are bags of rows: SQL fixes no order     *)
(* for a SELECT without ORDER BY.                                          *)
(***************************************************************************)
EXTENDS Integers, Sequences, FiniteSets, Bags, TLC

\* ------------------------------------------------------------ bounds
\* POST /api/insert is issued only while the table holds fewer rows
MaxRows == 2
\* longest ordinary batch (JSON array) a client posts
MaxBatch == 2
\* most values a client repeats for one query parameter
MaxList == 2
\* length of the one oversized batch a client posts
BulkLen == 101

\* ------------------------------------------------------------ values
None == <<>>
Some(x) == <<x>>

Empty == <<>>
Energy == <<"E", "n", "e", "r", "g", "y">>
TopicX == <<"X">>
Y2020 == <<"2", "0", "2", "0">>
Y2030 == <<"2", "0", "3", "0">>
Oil == <<"O", "i", "l">>
Gas == <<"G", "a", "s">>
Asia == <<"A", "s", "i", "a">>
Europe == <<"E", "u", "r", "o", "p", "e">>
Economic == <<"E", "c", "o">>
Political == <<"P", "o", "l">>
EIA == <<"E", "I", "A">>
WSJ == <<"W", "S", "J">>
India == <<"I", "n", "d", "i", "a">>
Norway == <<"N", "o", "r", "w", "a", "y">>

\* the keys of a record item, as insert_data spells them
K_end_year == <<"e", "n", "d", "_", "y", "e", "a", "r">>
K_topic == <<"t", "o", "p", "i", "c">>
K_intensity == <<"i", "n", "t", "e", "n", "s", "i", "t", "y">>
K_sector == <<"s", "e", "c", "t", "o", "r">>
K_region == <<"r", "e", "g", "i", "o", "n">>
K_pestle == <<"p", "e", "s", "t", "l", "e">>
K_source == <<"s", "o", "u", "r", "c", "e">>
K_country == <<"c", "o", "u", "n", "t", "r", "y">>

\* ------------------------------------------------------------ int()
IsDigit(c) == c \in {"0", "1", "2", "3", "4", "5", "6", "7", "8", "9"}

DigitVal(c) ==
    CASE c = "0" -> 0 [] c = "1" -> 1 [] c = "2" -> 2 [] c = "3" -> 3
      [] c = "4" -> 4 [] c = "5" -> 5 [] c = "6" -> 6 [] c = "7" -> 7
      [] c = "8" -> 8 [] c = "9" -> 9

RECURSIVE DigitsVal(_)
DigitsVal(s) ==
    IF s = <<>> THEN 0
    ELSE 10 * DigitsVal(SubSeq(s, 1, Len(s) - 1)) + DigitVal(s[Len(s)])

Unsigned(s) == IF Len(s) > 0 /\ s[1] \in {"-", "+"} THEN Tail(s) ELSE s

\* Python's int(str): an optional sign, then one or more digits; Some(n),
\* or None where int() raises ValueError.
py_int(s) ==
    LET body == Unsigned(s)
    IN  IF Len(body) > 0 /\ \A i \in 1..Len(body) : IsDigit(body[i])
        THEN Some(IF Len(s) > 0 /\ s[1] = "-" THEN 0 - DigitsVal(body)
                  ELSE DigitsVal(body))
        ELSE None

\* ------------------------------------------------------------ JSON
JNull == [t |-> "null"]
JBool(b) == [t |-> "bool", v |-> b]
JNum(n) == [t |-> "num", v |-> n]
JStr(s) == [t |-> "str", v |-> s]
JObj(f) == [t |-> "obj", v |-> f]
JArr(q) == [t |-> "arr", v |-> q]

\* dict.get(key): the value, or JNull (Python None) where the key is absent
Get(item, key) == IF key \in DOMAIN item.v THEN item.v[key] ELSE JNull

\* parse_int(value): None for "" and None, int(value) otherwise, None where
\* int() raises ValueError or TypeError
parse_int(value) ==
    CASE value.t = "null" -> None
      [] value.t = "str" -> IF value.v = Empty THEN None ELSE py_int(value.v)
      [] value.t = "num" -> Some(value.v)
      [] value.t = "bool" -> Some(IF value.v THEN 1 ELSE 0)
      [] OTHER -> None

\* ------------------------------------------------------------ insights rows
\* The columns of the insights table that a filter reads.  The other columns
\* (insight, url, start_year, impact, added, published, relevance, title,
\* likelihood, id) are written and returned but never compared.
column_value(value) == IF value.t = "str" THEN Some(value.v) ELSE None

\* one tuple of the insert_data list comprehension
insert_row(item) ==
    [end_year |-> column_value(Get(item, K_end_year)),
     intensity |-> parse_int(Get(item, K_intensity)),
     sector |-> column_value(Get(item, K_sector)),
     topic |-> column_value(Get(item, K_topic)),
     region |-> column_value(Get(item, K_region)),
     country |-> column_value(Get(item, K_country)),
     pestle |-> column_value(Get(item, K_pestle)),
     source |-> column_value(Get(item, K_source))]

\* ------------------------------------------------------------ filters
CatKeys == {"end_year", "topics", "sector", "regions", "pestle", "source", "country"}

db_key(key) == IF key = "topics" THEN "topic" ELSE IF key = "regions" THEN "region" ELSE key

\* [v for v in values if v]
non_empty(values) == SelectSeq(values, LAMBDA v : v # Empty)

\* `if values and values[0]` on the list request.args.getlist returns
first_truthy(values) == Len(values) > 0 /\ values[1] # Empty

\* the `= ANY(%s)` clauses the loop appends: column |-> list of values
any_clauses(args) ==
    [col \in {db_key(k) : k \in {k \in CatKeys : first_truthy(args[k])}} |->
        non_empty(args[CHOOSE k \in CatKeys : db_key(k) = col])]

\* `if values and values[0]` on the string (or None) request.args.get returns
bound_given(value) == value # None /\ value[1] # Empty

\* int(values[0]) where values is that string: values[0] is its first character
bound_int(value) == py_int(<<value[1][1]>>)

\* the name of the first intensity bound whose int() raises ValueError, or ""
invalid_bound(args) ==
    IF bound_given(args.intensity_min) /\ bound_int(args.intensity_min) = None
    THEN "intensity_min"
    ELSE IF bound_given(args.intensity_max) /\ bound_int(args.intensity_max) = None
    THEN "intensity_max"
    ELSE ""

\* column = ANY(list): NULL never matches
any_match(row, col, list) ==
    row[col] # None /\ \E i \in 1..Len(list) : list[i] = row[col][1]

\* WHERE 1=1 AND ... of get_dashboard_data, for arguments with valid bounds
data_where(row, args) ==
    /\ \A col \in DOMAIN any_clauses(args) : any_match(row, col, any_clauses(args)[col])
    /\ bound_given(args.intensity_min) =>
         row.intensity # None /\ row.intensity[1] >= bound_int(args.intensity_min)[1]
    /\ bound_given(args.intensity_max) =>
         row.intensity # None /\ row.intensity[1] <= bound_int(args.intensity_max)[1]

\* the SELECT list of get_dashboard_data (end_year AS year)
data_row(row) ==
    [intensity |-> row.intensity, year |-> row.end_year, country |-> row.country,
     topic |-> row.topic, region |-> row.region, sector |-> row.sector,
     pestle |-> row.pestle, source |-> row.source]

\* the bag of the elements of sequence q
SeqToBag(q) ==
    [x \in {q[i] : i \in 1..Len(q)} |-> Cardinality({i \in 1..Len(q) : q[i] = x})]

select_data(tbl, args) ==
    BagOfAll(data_row, [row \in {r \in DOMAIN tbl : data_where(r, args)} |-> tbl[row]])

\* SELECT DISTINCT col ... WHERE col IS NOT NULL AND col != '' (as a set)
distinct_values(tbl, col) ==
    {row[col][1] : row \in {r \in DOMAIN tbl : r[col] # None /\ r[col] # Some(Empty)}}

filter_queries(tbl) ==
    [end_years |-> distinct_values(tbl, "end_year"),
     topics |-> distinct_values(tbl, "topic"),
     sectors |-> distinct_values(tbl, "sector"),
     regions |-> distinct_values(tbl, "region"),
     pestles |-> distinct_values(tbl, "pestle"),
     sources |-> distinct_values(tbl, "source"),
     countries |-> distinct_values(tbl, "country")]

\* WHERE 1=1 AND ... of get_insights
insights_where(row, args) ==
    \A col \in DOMAIN any_clauses(args) : any_match(row, col, any_clauses(args)[col])

select_insights(tbl, args) == [row \in {r \in DOMAIN tbl : insights_where(r, args)} |-> tbl[row]]

\* ------------------------------------------------------------ handlers
\* a connection helper that swallows the failure and hands back a connection
get_db_connection_swallowing(fault) == TRUE

\* get_db_connection(): TRUE for a connection, FALSE where psycopg2.connect raises
\* and the function re-raises it as Exception
get_db_connection(fault) == fault # "connect"

\* a finally block that closes the connection only where the handler succeeded
finally_closes_on_success(ret) == ret.conn /\ ret.status < 400

\* `finally: if conn: conn.close()`, on the frame a handler leaves with
finally_closes(ret) == ret.conn

\* GET /api/data.  fault names the store call that raises, if any.  The error
\* of the 400 answer is the parameter its message names.
get_dashboard_data(tbl, args, fault) ==
    IF ~get_db_connection(fault)
    THEN [status |-> 500, error |-> "Unexpected error", conn |-> FALSE,
          data |-> EmptyBag, filters |-> <<>>]
    ELSE IF invalid_bound(args) # ""
    THEN [status |-> 400, error |-> invalid_bound(args), conn |-> TRUE,
          data |-> EmptyBag, filters |-> <<>>]
    ELSE IF fault = "query"
    THEN [status |-> 500, error |-> "Database error", conn |-> TRUE,
          data |-> EmptyBag, filters |-> <<>>]
    ELSE [status |-> 200, error |-> "", conn |-> TRUE,
          data |-> select_data(tbl, args), filters |-> filter_queries(tbl)]

\* GET /api/insights
get_insights(tbl, args, fault) ==
    IF ~get_db_connection(fault)
    THEN [status |-> 500, error |-> "Unexpected error", conn |-> FALSE, data |-> EmptyBag]
    ELSE IF fault = "query"
    THEN [status |-> 500, error |-> "Database error", conn |-> TRUE, data |-> EmptyBag]
    ELSE [status |-> 200, error |-> "", conn |-> TRUE, data |-> select_insights(tbl, args)]

\* GET /health
health(fault) ==
    IF ~get_db_connection(fault)
    THEN [status |-> 500, error |-> "unhealthy", conn |-> FALSE]
    ELSE [status |-> 200, error |-> "", conn |-> TRUE]

\* `not data`
falsy(data) ==
    CASE data.t = "null" -> TRUE
      [] data.t = "bool" -> ~data.v
      [] data.t = "num" -> data.v = 0
      [] data.t = "str" -> data.v = Empty
      [] data.t = "obj" -> DOMAIN data.v = {}
      [] data.t = "arr" -> data.v = <<>>

\* whether `for item in data` raises TypeError
not_iterable(data) == data.t \in {"bool", "num", "null"}

RECURSIVE SetToSeq(_)
SetToSeq(S) ==
    IF S = {} THEN <<>> ELSE LET x == CHOOSE x \in S : TRUE IN <<x>> \o SetToSeq(S \ {x})

\* the items `for item in data` yields: the elements of a list, the keys of a
\* dict, the characters of a string
iter(data) ==
    CASE data.t = "arr" -> data.v
      [] data.t = "obj" -> [i \in 1..Cardinality(DOMAIN data.v) |->
                               JStr(SetToSeq(DOMAIN data.v)[i])]
      [] data.t = "str" -> [i \in 1..Len(data.v) |-> JStr(<<data.v[i]>>)]

\* `key in item` on a string item: the substring test
is_substring(key, text) ==
    \E i \in 0..(Len(text) - Len(key)) : SubSeq(text, i + 1, i + Len(key)) = key

\* whether `key in item` raises TypeError
no_contains(item) == item.t \in {"bool", "num", "null"}

\* `key in item`
contains(item, key) ==
    CASE item.t = "obj" -> key \in DOMAIN item.v
      [] item.t = "str" -> is_substring(key, item.v)
      [] item.t = "arr" -> \E i \in 1..Len(item.v) :
                              item.v[i].t = "str" /\ item.v[i].v = key

\* a required-field check that asks for topic alone
has_required_topic_only(item) == contains(item, K_topic)

\* all(key in item for key in ['end_year', 'topic'])
has_required(item) == contains(item, K_end_year) /\ contains(item, K_topic)

\* a validation loop that also turns away a batch of more than 100 items
validate_with_limit(items) ==
    LET bad == {i \in 1..Len(items) : no_contains(items[i]) \/ ~has_required(items[i])}
        first == CHOOSE i \in bad : \A j \in bad : i <= j
    IN  IF Len(items) > 100 THEN "missing"
        ELSE IF bad = {} THEN "ok"
        ELSE IF no_contains(items[first]) THEN "TypeError"
        ELSE "missing"

\* the validation loop, decided by the first item that fails: "ok", "missing"
\* (the 400 return) or "TypeError"
validate(items) ==
    LET bad == {i \in 1..Len(items) : no_contains(items[i]) \/ ~has_required(items[i])}
        first == CHOOSE i \in bad : \A j \in bad : i <= j
    IN  IF bad = {} THEN "ok"
        ELSE IF no_contains(items[first]) THEN "TypeError"
        ELSE "missing"

\* whether building insert_data raises AttributeError (item.get on a non-dict)
no_get(items) == \E i \in 1..Len(items) : items[i].t # "obj"

\* an insert that executes the statement for the first record only
insert_rows_first_only(items) == <<insert_row(items[1])>>

\* the insert_data list comprehension
insert_rows(items) == [i \in 1..Len(items) |-> insert_row(items[i])]

\* POST /api/insert.  data is request.get_json(); fault names the store call
\* that raises, if any.  table is the committed content the handler leaves.
insert_data(tbl, data, fault) ==
    IF falsy(data)
    THEN [status |-> 400, error |-> "No JSON data provided", conn |-> FALSE,
          count |-> 0, table |-> tbl]
    ELSE IF not_iterable(data) \/ validate(iter(data)) = "TypeError"
    THEN [status |-> 500, error |-> "Unexpected error", conn |-> FALSE,
          count |-> 0, table |-> tbl]
    ELSE IF validate(iter(data)) = "missing"
    THEN [status |-> 400, error |-> "Missing required fields: end_year, topic",
          conn |-> FALSE, count |-> 0, table |-> tbl]
    ELSE IF ~get_db_connection(fault)
    THEN [status |-> 500, error |-> "Unexpected error", conn |-> FALSE,
          count |-> 0, table |-> tbl]
    ELSE IF no_get(iter(data))
    THEN [status |-> 500, error |-> "Unexpected error", conn |-> TRUE,
          count |-> 0, table |-> tbl]
    ELSE IF fault \in {"executemany", "commit"}
    THEN [status |-> 500, error |-> "Database error", conn |-> TRUE,
          count |-> 0, table |-> tbl]
    ELSE IF fault = "count"
    THEN [status |-> 500, error |-> "Database error", conn |-> TRUE,
          count |-> 0, table |-> tbl (+) SeqToBag(insert_rows(iter(data)))]
    ELSE [status |-> 201, error |-> "", conn |-> TRUE,
          count |-> Len(insert_rows(iter(data))),
          table |-> tbl (+) SeqToBag(insert_rows(iter(data)))]

\* ------------------------------------------------------------ requests
NoArgs ==
    [end_year |-> <<>>, topics |-> <<>>, sector |-> <<>>, regions |-> <<>>,
     pestle |-> <<>>, source |-> <<>>, country |-> <<>>,
     intensity_min |-> None, intensity_max |-> None]

\* the values a client sends for a categorical parameter
ParamValues(key) ==
    CASE key = "end_year" -> {Empty, Y2020, Y2030}
      [] key = "topics" -> {Empty, Energy, TopicX}
      [] key = "sector" -> {Empty, Oil, Gas}
      [] key = "regions" -> {Empty, Asia, Europe}
      [] key = "pestle" -> {Empty, Economic, Political}
      [] key = "source" -> {Empty, EIA, WSJ}
      [] key = "country" -> {Empty, India, Norway}

Lists(S, n) == UNION {[1..m -> S] : m \in 0..n}

\* requests that repeat one categorical parameter
CatArgs ==
    UNION {{[NoArgs EXCEPT ![k] = vs] : vs \in Lists(ParamValues(k), MaxList)} : k \in CatKeys}

\* the texts a client sends for intensity_min and intensity_max (None: absent)
BoundTexts ==
    {None, Some(Empty), Some(<<"3">>), Some(<<"5">>), Some(<<"1", "2">>),
     Some(<<"-", "3">>), Some(<<"5", "x">>)}

\* requests with intensity bounds, alone or with topics=Energy
RangeArgs ==
    {[NoArgs EXCEPT !.topics = tv, !.intensity_min = mn, !.intensity_max = mx] :
        tv \in {<<>>, <<Energy>>}, mn \in BoundTexts, mx \in BoundTexts}

DataArgs == CatArgs \cup RangeArgs

\* GET /api/insights is modelled for its categorical parameters; requests
\* carrying its `intensity` parameter are not enumerated
InsightsArgs == CatArgs

ItemA ==
    JObj(K_end_year :> JStr(Y2020) @@ K_topic :> JStr(Energy) @@ K_intensity :> JNum(3)
         @@ K_sector :> JStr(Oil) @@ K_region :> JStr(Asia) @@ K_pestle :> JStr(Economic)
         @@ K_source :> JStr(EIA) @@ K_country :> JStr(India))

ItemB ==
    JObj(K_end_year :> JStr(Y2030) @@ K_topic :> JStr(Energy) @@ K_intensity :> JStr(<<"7">>)
         @@ K_sector :> JStr(Gas) @@ K_region :> JStr(Europe) @@ K_pestle :> JStr(Political)
         @@ K_source :> JStr(WSJ) @@ K_country :> JStr(Norway))

\* end_year present but null, topic X, nothing else
ItemX == JObj(K_end_year :> JNull @@ K_topic :> JStr(TopicX))

\* {"topic": "X"}
ItemOnlyTopic == JObj(K_topic :> JStr(TopicX))

\* what a client puts in a JSON array: records, a number, a string that
\* contains both required key names
Elements == {ItemA, ItemB, ItemX, ItemOnlyTopic, JNum(1), JStr(K_end_year \o K_topic)}

Arrays == {JArr(q) : q \in Lists(Elements, MaxBatch)}

Bulk == JArr([i \in 1..BulkLen |-> ItemA])

NonArrays ==
    {JNull, JBool(TRUE), JBool(FALSE), JNum(0), JNum(5), JStr(Empty),
     JStr(<<"a", "b">>), JObj(<<>>), JObj(<<"a">> :> JNum(1)),
     JObj((K_end_year \o K_topic) :> JNum(1))}

Bodies == Arrays \cup {Bulk} \cup NonArrays

QueryFaults == {"none", "connect", "query"}
InsertFaults == {"none", "connect", "executemany", "commit", "count"}
HealthFaults == {"none", "connect"}

\* ------------------------------------------------------------ state
\* table: the committed rows of insights, a bag
\* openConns: the store connections that are open
\* resp: the response the worker is returning; handler "none" while it is idle
VARIABLES table, openConns, resp

vars == <<table, openConns, resp>>

NoResp == [handler |-> "none"]

\* the connections a handler leaves open: acquired and not closed on the way out
leaked(ret) == (IF ret.conn THEN 1 ELSE 0) - (IF finally_closes(ret) THEN 1 ELSE 0)

\* startup: init_db creates the table, load_json_data finds no data file, and
\* their connections are gone when they return
Init == table = EmptyBag /\ openConns = 0 /\ resp = NoResp

GetData(args, fault) ==
    /\ resp = NoResp
    /\ LET ret == get_dashboard_data(table, args, fault)
       IN  /\ resp' = [handler |-> "data", args |-> args, fault |-> fault,
                       status |-> ret.status, error |-> ret.error,
                       data |-> ret.data, filters |-> ret.filters]
           /\ openConns' = openConns + leaked(ret)
    /\ UNCHANGED table

GetInsights(args, fault) ==
    /\ resp = NoResp
    /\ LET ret == get_insights(table, args, fault)
       IN  /\ resp' = [handler |-> "insights", args |-> args, fault |-> fault,
                       status |-> ret.status, error |-> ret.error, data |-> ret.data]
           /\ openConns' = openConns + leaked(ret)
    /\ UNCHANGED table

Health(fault) ==
    /\ resp = NoResp
    /\ LET ret == health(fault)
       IN  /\ resp' = [handler |-> "health", fault |-> fault,
                       status |-> ret.status, error |-> ret.error]
           /\ openConns' = openConns + leaked(ret)
    /\ UNCHANGED table

PostInsert(data, fault) ==
    /\ resp = NoResp
    /\ BagCardinality(table) < MaxRows
    /\ LET ret == insert_data(table, data, fault)
       IN  /\ resp' = [handler |-> "insert", body |-> data, fault |-> fault,
                       status |-> ret.status, error |-> ret.error, count |-> ret.count]
           /\ openConns' = openConns + leaked(ret)
           /\ table' = ret.table

\* the response is sent and the worker takes the next request
Return ==
    /\ resp # NoResp
    /\ resp' = NoResp
    /\ UNCHANGED <<table, openConns>>

Next ==
    \/ \E args \in DataArgs, fault \in QueryFaults : GetData(args, fault)
    \/ \E args \in InsightsArgs, fault \in QueryFaults : GetInsights(args, fault)
    \/ \E fault \in HealthFaults : Health(fault)
    \/ \E data \in Bodies, fault \in InsertFaults : PostInsert(data, fault)
    \/ Return

Spec == Init /\ [][Next]_vars

\* ------------------------------------------------------------ properties

\* C1: every handler that acquires a store connection has closed it by the
\* time it returns, on every exit path (success, 400, 500), so no connection
\* is open once a request has completed.
C1_ConnectionsReleased == openConns = 0

\* a store error on the batch, after the connection was acquired, has returned
C1_Witness ==
    /\ resp.handler = "insert"
    /\ resp.fault = "executemany"
    /\ resp.status = 500
    /\ resp.error = "Database error"
    /\ openConns = 0

C3_AllOrNothing ==
    [][(resp'.handler = "insert" /\ resp'.status # 201) => table' = table]_vars

Range(q) == {q[i] : i \in 1..Len(q)}

\* the membership predicate the claim describes: a clause on a column exactly
\* where some received value is non-empty, matching the non-empty values
C5_where(row, args) ==
    \A k \in CatKeys :
        Range(args[k]) \ {Empty} # {} =>
            row[db_key(k)] # None /\ row[db_key(k)][1] \in Range(args[k]) \ {Empty}

C5_rows(tbl, args) == [row \in {r \in DOMAIN tbl : C5_where(r, args)} |-> tbl[row]]

\* C5 (as claimed): for every categorical parameter of GET /api/data and
\* GET /api/insights, the rows returned are those whose column is one of the
\* non-empty values received, wherever the empty values stand in the list.
C5_MembershipClause ==
    (/\ resp.handler \in {"data", "insights"}
     /\ resp.status = 200
     /\ resp.args.intensity_min = None
     /\ resp.args.intensity_max = None) =>
        resp.data =
            IF resp.handler = "data"
            THEN BagOfAll(data_row, C5_rows(table, resp.args))
            ELSE C5_rows(table, resp.args)

\* a bound the client supplied (present and not empty)
Supplied(value) == value # None /\ value[1] # Empty

\* a bound that is absent, or whose whole text is an integer
WholeInt(value) == Supplied(value) => py_int(value[1]) # None

\* C6 (as claimed): with the store healthy, GET /api/data accepts the request
\* exactly when every supplied intensity bound parses, as a whole, as an
\* integer, and otherwise answers 400 naming an offending parameter.
C6_BoundsValidated ==
    (resp.handler = "data" /\ resp.fault = "none") =>
        IF WholeInt(resp.args.intensity_min) /\ WholeInt(resp.args.intensity_max)
        THEN resp.status = 200
        ELSE /\ resp.status = 400
             /\ resp.error \in {k \in {"intensity_min", "intensity_max"} : ~WholeInt(resp.args[k])}

\* the range predicate the claim describes: the categorical clauses the
\* handler adds, and the bounds on the full integers supplied
C7_where(row, args) ==
    /\ \A col \in DOMAIN any_clauses(args) : any_match(row, col, any_clauses(args)[col])
    /\ Supplied(args.intensity_min) =>
         row.intensity # None /\ row.intensity[1] >= py_int(args.intensity_min[1])[1]
    /\ Supplied(args.intensity_max) =>
         row.intensity # None /\ row.intensity[1] <= py_int(args.intensity_max[1])[1]

C7_rows(tbl, args) == [row \in {r \in DOMAIN tbl : C7_where(r, args)} |-> tbl[row]]

\* C7 (as claimed): for integer bounds m and M, GET /api/data returns exactly
\* the rows, among those matching the other filters, with m <= intensity <= M.
C7_RangeOnFullValue ==
    (/\ resp.handler = "data"
     /\ resp.status = 200
     /\ WholeInt(resp.args.intensity_min)
     /\ WholeInt(resp.args.intensity_max)) =>
        resp.data = BagOfAll(data_row, C7_rows(table, resp.args))

\* an array whose items are all records carrying end_year and topic
ValidBatch(body) ==
    /\ body.t = "arr"
    /\ \A i \in 1..Len(body.v) :
         body.v[i].t = "obj" /\ {K_end_year, K_topic} \subseteq DOMAIN body.v[i].v

C9_NonArrayRejected ==
    [][(resp'.handler = "insert" /\ resp'.body.t # "arr" /\ resp'.fault = "none") =>
            (resp'.status \in 400..499 /\ table' = table)]_vars

\* C10 (as claimed): [{"topic": "X"}], with no end_year, is inserted.
C10_NoFieldRequired ==
    (/\ resp.handler = "insert"
     /\ resp.body = JArr(<<ItemOnlyTopic>>)
     /\ resp.fault = "none") => resp.status = 201

\* the row stored for {"end_year": null, "topic": "X"}
RowX ==
    [end_year |-> None, intensity |-> None, sector |-> None, topic |-> Some(TopicX),
     region |-> None, country |-> None, pestle |-> None, source |-> None]

TopicXArgs == [NoArgs EXCEPT !.topics = <<TopicX>>]

\* an array of records of which one lacks end_year or topic
LacksRequired(body) ==
    /\ body.t = "arr"
    /\ \A i \in 1..Len(body.v) : body.v[i].t = "obj"
    /\ \E i \in 1..Len(body.v) : ~({K_end_year, K_topic} \subseteq DOMAIN body.v[i].v)

\* C10 (amended): an item must carry the keys end_year and topic (null values
\* are accepted), and no other field is required.  A batch of records of which
\* one lacks a required key is answered 400 and inserts nothing.
\* [{"end_year": null, "topic": "X"}] is inserted with every other field null,
\* and a GET /api/data?topics=X on a store whose only topic-X row is that
\* record returns exactly that one record.
C10_OnlyKeysRequired ==
    [][/\ (resp'.handler = "insert" /\ LacksRequired(resp'.body)) =>
            (resp'.status = 400 /\ table' = table)
       /\ (resp'.handler = "insert" /\ resp'.body = JArr(<<ItemX>>)
             /\ resp'.fault = "none") =>
            (resp'.status = 201 /\ table' = table (+) SetToBag({RowX}))
       /\ (/\ resp'.handler = "data"
           /\ resp'.args = TopicXArgs
           /\ resp'.status = 200
           /\ \A row \in DOMAIN table' :
                row.topic = Some(TopicX) => (row = RowX /\ table'[row] = 1)
           /\ RowX \in DOMAIN table') =>
            resp'.data = SetToBag({data_row(RowX)})]_vars

\* the read topics=X returned the one record, among other rows of the table
C10_Witness ==
    /\ resp.handler = "data"
    /\ resp.args = TopicXArgs
    /\ resp.status = 200
    /\ resp.data = SetToBag({data_row(RowX)})
    /\ BagCardinality(table) > 1
====
